---- MODULE Spec2Model ----
(***************************************************************************)
(* The active-session manager of src/index.tsx (class ActiveSessionManager) *)
(* and the localStorage area its instances share.                          *)
(*                                                                         *)
(* Every browsing context (tab, window) of the origin holds one instance.  *)
(* The contexts run in their own event loops against one storage area, so  *)
(* the storage operations of different instances interleave: a step of the *)
(* model is one handler of one instance, except the constructor, whose     *)
(* sweep loop is cut at each iteration (one iteration = the length read,   *)
(* the key(i) read and the removeItem of lines 330-334).                   *)
(***************************************************************************)
EXTENDS Integers, Sequences, FiniteSets, TLC

\* Number of ActiveSessionManager instances ever constructed on the storage.
MaxInst == 3

Inst == 1..MaxInst

\* ------------------------------------------------------------------------
\* Keys and values.  A key is <<head, tail>>: `head' is the part of the
\* string that startsWith() compares with the prefix, `tail' the rest.
\* ------------------------------------------------------------------------
ACTIVE_SESSION_KEY_PREFIX == "semanticAppActiveSession_"

LOCAL_STORAGE_PROJECTS == <<"semanticAppProjects", 0>>

\* The value claimSession writes and the interval callback expects.
ACTIVE == "active"

\* getItem's result for a key that is not in the storage.
NULL == "null"

\* The application's own records, which share the storage with the claims.
OtherKeys == {LOCAL_STORAGE_PROJECTS}

\* this.sessionId: `${Date.now()}-${random}`, distinct for every instance.
sessionId(i) == i

\* this.storageKey = `${ACTIVE_SESSION_KEY_PREFIX}${this.sessionId}`
storageKey(i) == <<ACTIVE_SESSION_KEY_PREFIX, sessionId(i)>>

\* key.startsWith(prefix)
startsWith(key, prefix) == key[1] = prefix

\* ------------------------------------------------------------------------
\* The Storage interface: an ordered list of key/value entries.  The order
\* of the keys is the user agent's; it is stable while no key is added.
\* ------------------------------------------------------------------------
Entry(k, v) == [key |-> k, value |-> v]

\* localStorage.length
length(store) == Len(store)

\* localStorage.key(n), n counted from 0
key(store, n) == IF n < Len(store) THEN store[n + 1].key ELSE <<NULL, 0>>

HasKey(store, k) == \E n \in 1..Len(store) : store[n].key = k

\* localStorage.getItem(k)
getItem(store, k) ==
    IF HasKey(store, k)
    THEN (CHOOSE e \in {store[n] : n \in 1..Len(store)} : e.key = k).value
    ELSE NULL

RemoveKeepingOrder(store, k) == SelectSeq(store, LAMBDA e : e.key # k)

\* localStorage.removeItem(k): the other keys keep their relative order.
removeItem(store, k) == RemoveKeepingOrder(store, k)

InsertAt(store, p, e) == SubSeq(store, 1, p) \o <<e>> \o SubSeq(store, p + 1, Len(store))

\* localStorage.setItem(k, v): the set of storages it may leave.  A key that
\* is present keeps its place; a new key takes any place in the order.
setItem(store, k, v) ==
    IF HasKey(store, k)
    THEN {[n \in 1..Len(store) |->
              IF store[n].key = k THEN Entry(k, v) ELSE store[n]]}
    ELSE {InsertAt(store, p, Entry(k, v)) : p \in 0..Len(store)}

\* The keys of the storage that are session claims.
ClaimKeys(store) ==
    {store[n].key : n \in {m \in 1..Len(store) :
                              startsWith(store[m].key, ACTIVE_SESSION_KEY_PREFIX)}}

\* ------------------------------------------------------------------------
\* State
\* ------------------------------------------------------------------------
VARIABLES
    storage,          \* window.localStorage of the origin
    avail,            \* the storage works: FALSE while its operations throw
    pc,               \* per instance: "idle" (not constructed), "ctor", "live"
    idx,              \* per instance: the loop variable i of claimSession
                      \* (0 outside the loop, where it does not exist)
    isActiveSession,  \* per instance: the field isActiveSession
    timerOn,          \* per instance: the interval of intervalId is running
    conflicts,        \* per instance: number of calls of onConflict
    uncaught,         \* an exception has left a handler of the manager
    warnedCheck,      \* console: the warning of the interval callback's catch
                      \* block has been logged
    answer,           \* what the last call of isCurrentActiveSession returned
                      \* (FALSE before the first call)
    lateRead,         \* an interval callback has read the storage after its
                      \* instance's conflict callback was called
    \* What follows records the run; no handler reads it.
    solo,             \* per instance under construction: no other constructor
                      \* has taken a step since its own began
    raced,            \* some construction ended with solo false
    threw,            \* some claimSession has ended in its catch block
    newest,           \* the instance whose constructor returned last (0: none)
    unloaded,         \* some beforeunload listener has run
    \* The App component of each page (pages are numbered like instances).
    isConcurrencyError, \* per page: the state isConcurrencyError
    sessionManagerRef,  \* per page: sessionManagerRef.current, the id of a
                        \* manager or 0 for null
    effectOn,           \* per page: the mount effect has run and its cleanup
                        \* has not run since
    owner               \* per manager: the page whose App constructed it
                        \* (0: none, or constructed outside an App)

\* The state of the storage and of the session managers.
classVars == <<storage, avail, pc, idx, isActiveSession, timerOn, conflicts,
               uncaught, warnedCheck, answer, lateRead, solo, raced, threw,
               newest, unloaded>>

\* The state of the App components.
appVars == <<isConcurrencyError, sessionManagerRef, effectOn, owner>>

vars == <<storage, avail, pc, idx, isActiveSession, timerOn, conflicts,
          uncaught, warnedCheck, answer, lateRead, solo, raced, threw, newest,
          unloaded, isConcurrencyError, sessionManagerRef, effectOn, owner>>

RECURSIVE Perms(_)
Perms(S) ==
    IF S = {} THEN {<<>>}
    ELSE UNION {{<<x>> \o p : p \in Perms(S \ {x})} : x \in S}

\* The storage before the first manager is constructed: the application's
\* records, in any order, and no claim.
InitialStorages ==
    UNION {{[n \in 1..Len(p) |-> Entry(p[n], "data")] : p \in Perms(S)} :
             S \in SUBSET OtherKeys}

Init ==
    /\ storage \in InitialStorages
    /\ avail \in BOOLEAN
    /\ pc = [i \in Inst |-> "idle"]
    /\ idx = [i \in Inst |-> 0]
    /\ isActiveSession = [i \in Inst |-> FALSE]
    /\ timerOn = [i \in Inst |-> FALSE]
    /\ conflicts = [i \in Inst |-> 0]
    /\ uncaught = FALSE
    /\ warnedCheck = FALSE
    /\ answer = FALSE
    /\ lateRead = FALSE
    /\ solo = [i \in Inst |-> TRUE]
    /\ raced = FALSE
    /\ threw = FALSE
    /\ newest = 0
    /\ unloaded = FALSE
    /\ isConcurrencyError = [p \in Inst |-> FALSE]
    /\ sessionManagerRef = [p \in Inst |-> 0]
    /\ effectOn = [p \in Inst |-> FALSE]
    /\ owner = [i \in Inst |-> 0]

\* ------------------------------------------------------------------------
\* The environment: storage access starts or stops throwing (storage
\* disabled, quota exhausted, restricted context).
\* ------------------------------------------------------------------------
StorageFails ==
    /\ avail
    /\ avail' = FALSE
    /\ UNCHANGED <<storage, pc, idx, isActiveSession, timerOn, conflicts,
                   uncaught, warnedCheck, answer, lateRead, solo, raced, threw,
                   newest, unloaded>>

StorageRecovers ==
    /\ ~avail
    /\ avail' = TRUE
    /\ UNCHANGED <<storage, pc, idx, isActiveSession, timerOn, conflicts,
                   uncaught, warnedCheck, answer, lateRead, solo, raced, threw,
                   newest, unloaded>>

\* (handlers without their try blocks)
Escapes_NoCatch(thrown, inTry) == thrown

\* Whether an exception thrown inside a handler leaves it: it does not when
\* the throwing statement is inside a try block with a catch.
Escapes(thrown, inTry) == thrown /\ ~inTry

\* ------------------------------------------------------------------------
\* Constructor
\* ------------------------------------------------------------------------
\* A constructor step of instance i overlaps every other construction that
\* is under way.
Overlap(i) ==
    [j \in Inst |-> IF j # i /\ pc[j] = "ctor" THEN FALSE ELSE solo[j]]

\* setupListeners: registers the beforeunload listener and starts the
\* interval.  It ends the constructor.
setupListeners(i) ==
    /\ pc' = [pc EXCEPT ![i] = "live"]
    /\ timerOn' = [timerOn EXCEPT ![i] = TRUE]
    /\ newest' = i
    /\ raced' = (raced \/ ~solo[i])
    /\ solo' = [Overlap(i) EXCEPT ![i] = TRUE]

\* new ActiveSessionManager(cb): the fields are set (isActiveSession = true
\* by its initialiser) and claimSession is entered with i = 0.  Instances
\* are numbered in the order in which their constructors are entered.
constructor(i) ==
    /\ pc[i] = "idle"
    /\ \A j \in Inst : j < i => pc[j] # "idle"
    /\ pc' = [pc EXCEPT ![i] = "ctor"]
    /\ idx' = [idx EXCEPT ![i] = 0]
    /\ isActiveSession' = [isActiveSession EXCEPT ![i] = TRUE]
    /\ solo' = [Overlap(i) EXCEPT ![i] = \A j \in Inst : pc[j] # "ctor"]
    /\ UNCHANGED <<storage, avail, timerOn, conflicts, uncaught, warnedCheck,
                   answer, lateRead, raced, threw, newest, unloaded>>

\* The catch block of claimSession: a warning, then setupListeners.
claimSessionCatch(i) ==
    /\ threw' = TRUE
    /\ uncaught' = (uncaught \/ Escapes(TRUE, TRUE))
    /\ idx' = [idx EXCEPT ![i] = 0]
    /\ setupListeners(i)
    /\ UNCHANGED <<storage, isActiveSession>>

\* (a sweep whose test never matches: nothing is removed)
sweepStep_NoMatch(store, n) == store

\* (a sweep without the prefix test: whatever key is at the index goes)
sweepStep_NoTest(store, n) == removeItem(store, key(store, n))

\* The body of the loop of claimSession at index n:
\* key = localStorage.key(n); if (key && key.startsWith(PREFIX)) removeItem(key)
sweepStep(store, n) ==
    IF startsWith(key(store, n), ACTIVE_SESSION_KEY_PREFIX)
    THEN removeItem(store, key(store, n))
    ELSE store

\* One iteration of the loop of claimSession: i < localStorage.length, the
\* body, i++.
claimSessionLoop(i) ==
    /\ pc[i] = "ctor"
    /\ idx[i] < length(storage)
    /\ IF avail
       THEN /\ solo' = Overlap(i)
            /\ storage' = sweepStep(storage, idx[i])
            /\ idx' = [idx EXCEPT ![i] = idx[i] + 1]
            /\ UNCHANGED <<pc, isActiveSession, timerOn, uncaught, raced, threw,
                           newest>>
       ELSE claimSessionCatch(i)
    /\ UNCHANGED <<avail, conflicts, warnedCheck, answer, lateRead, unloaded>>

\* (a claimSession that sets the flag without writing its key)
claimSessionWrite_NoClaim(i) ==
    /\ pc[i] = "ctor"
    /\ ~(idx[i] < length(storage))
    /\ IF avail
       THEN /\ storage' = storage
            /\ isActiveSession' = [isActiveSession EXCEPT ![i] = TRUE]
            /\ idx' = [idx EXCEPT ![i] = 0]
            /\ setupListeners(i)
            /\ UNCHANGED <<uncaught, threw>>
       ELSE claimSessionCatch(i)
    /\ UNCHANGED <<avail, conflicts, warnedCheck, answer, lateRead, unloaded>>

\* (a claimSession whose key does not depend on the session id)
claimSessionWrite_SharedKey(i) ==
    /\ pc[i] = "ctor"
    /\ ~(idx[i] < length(storage))
    /\ IF avail
       THEN /\ storage' \in setItem(storage, storageKey(1), ACTIVE)
            /\ isActiveSession' = [isActiveSession EXCEPT ![i] = TRUE]
            /\ idx' = [idx EXCEPT ![i] = 0]
            /\ setupListeners(i)
            /\ UNCHANGED <<uncaught, threw>>
       ELSE claimSessionCatch(i)
    /\ UNCHANGED <<avail, conflicts, warnedCheck, answer, lateRead, unloaded>>

\* The end of claimSession: the loop condition fails, setItem(storageKey,
\* 'active') and isActiveSession = true; then setupListeners.
claimSessionWrite(i) ==
    /\ pc[i] = "ctor"
    /\ ~(idx[i] < length(storage))
    /\ IF avail
       THEN /\ storage' \in setItem(storage, storageKey(i), ACTIVE)
            /\ isActiveSession' = [isActiveSession EXCEPT ![i] = TRUE]
            /\ idx' = [idx EXCEPT ![i] = 0]
            /\ setupListeners(i)
            /\ UNCHANGED <<uncaught, threw>>
       ELSE claimSessionCatch(i)
    /\ UNCHANGED <<avail, conflicts, warnedCheck, answer, lateRead, unloaded>>

\* ------------------------------------------------------------------------
\* Handlers of a constructed instance
\* ------------------------------------------------------------------------
\* (a pre-unload hook that clears the whole claim namespace)
beforeunload_ClearsAll(i) ==
    /\ pc[i] = "live"
    /\ unloaded' = TRUE
    /\ storage' = IF isActiveSession[i] /\ avail
                  THEN SelectSeq(storage, LAMBDA e :
                           ~startsWith(e.key, ACTIVE_SESSION_KEY_PREFIX))
                  ELSE storage
    /\ uncaught' = (uncaught \/ Escapes(isActiveSession[i] /\ ~avail, TRUE))
    /\ UNCHANGED <<avail, pc, idx, isActiveSession, timerOn, conflicts,
                   warnedCheck, answer, lateRead, solo, raced, threw, newest>>

\* The beforeunload listener.  The page may still go on after it (the
\* unload can be cancelled), so the instance stays.
beforeunload(i) ==
    /\ pc[i] = "live"
    /\ unloaded' = TRUE
    /\ storage' = IF isActiveSession[i] /\ avail
                  THEN removeItem(storage, storageKey(i))
                  ELSE storage
    /\ uncaught' = (uncaught \/ Escapes(isActiveSession[i] /\ ~avail, TRUE))
    /\ UNCHANGED <<avail, pc, idx, isActiveSession, timerOn, conflicts,
                   warnedCheck, answer, lateRead, solo, raced, threw, newest>>

\* (the check without its first line, `if (!this.isActiveSession) return')
interval_NoGuard(i) ==
    /\ pc[i] = "live"
    /\ timerOn[i]
    /\ conflicts[i] < 3
    /\ IF ~avail
       THEN /\ warnedCheck' = TRUE
            /\ uncaught' = (uncaught \/ Escapes(TRUE, TRUE))
            /\ UNCHANGED <<isActiveSession, conflicts, timerOn, lateRead>>
       ELSE /\ lateRead' = (lateRead \/ conflicts[i] > 0)
            /\ warnedCheck' = warnedCheck
            /\ IF getItem(storage, storageKey(i)) # ACTIVE
               THEN /\ isActiveSession' = [isActiveSession EXCEPT ![i] = FALSE]
                    /\ conflicts' = [conflicts EXCEPT ![i] = conflicts[i] + 1]
                    /\ \E cbThrows \in BOOLEAN :
                         /\ timerOn' = [timerOn EXCEPT ![i] = cbThrows]
                         /\ uncaught' = (uncaught \/ Escapes(cbThrows, TRUE))
               ELSE UNCHANGED <<isActiveSession, conflicts, timerOn, uncaught>>
    /\ UNCHANGED <<storage, avail, pc, idx, answer, solo, raced, threw, newest,
                   unloaded>>

\* (the check taking the session back when it finds itself evicted)
interval_Reclaims(i) ==
    /\ pc[i] = "live"
    /\ timerOn[i]
    /\ IF ~isActiveSession[i]
       THEN /\ isActiveSession' = [isActiveSession EXCEPT ![i] = TRUE]
            /\ UNCHANGED <<conflicts, timerOn, uncaught, warnedCheck, lateRead>>
       ELSE IF ~avail
       THEN /\ warnedCheck' = TRUE
            /\ uncaught' = (uncaught \/ Escapes(TRUE, TRUE))
            /\ UNCHANGED <<isActiveSession, conflicts, timerOn, lateRead>>
       ELSE /\ lateRead' = (lateRead \/ conflicts[i] > 0)
            /\ warnedCheck' = warnedCheck
            /\ IF getItem(storage, storageKey(i)) # ACTIVE
               THEN /\ isActiveSession' = [isActiveSession EXCEPT ![i] = FALSE]
                    /\ conflicts' = [conflicts EXCEPT ![i] = conflicts[i] + 1]
                    /\ \E cbThrows \in BOOLEAN :
                         /\ timerOn' = [timerOn EXCEPT ![i] = cbThrows]
                         /\ uncaught' = (uncaught \/ Escapes(cbThrows, TRUE))
               ELSE UNCHANGED <<isActiveSession, conflicts, timerOn, uncaught>>
    /\ UNCHANGED <<storage, avail, pc, idx, answer, solo, raced, threw, newest,
                   unloaded>>

\* (the check treating a storage exception as a conflict)
interval_ThrowEvicts(i) ==
    /\ pc[i] = "live"
    /\ timerOn[i]
    /\ IF ~isActiveSession[i]
       THEN UNCHANGED <<isActiveSession, conflicts, timerOn, uncaught,
                        warnedCheck, lateRead>>
       ELSE IF ~avail
       THEN /\ warnedCheck' = TRUE
            /\ lateRead' = lateRead
            /\ isActiveSession' = [isActiveSession EXCEPT ![i] = FALSE]
            /\ conflicts' = [conflicts EXCEPT ![i] = conflicts[i] + 1]
            /\ \E cbThrows \in BOOLEAN :
                 /\ timerOn' = [timerOn EXCEPT ![i] = cbThrows]
                 /\ uncaught' = (uncaught \/ Escapes(cbThrows, TRUE))
       ELSE /\ lateRead' = (lateRead \/ conflicts[i] > 0)
            /\ warnedCheck' = warnedCheck
            /\ IF getItem(storage, storageKey(i)) # ACTIVE
               THEN /\ isActiveSession' = [isActiveSession EXCEPT ![i] = FALSE]
                    /\ conflicts' = [conflicts EXCEPT ![i] = conflicts[i] + 1]
                    /\ \E cbThrows \in BOOLEAN :
                         /\ timerOn' = [timerOn EXCEPT ![i] = cbThrows]
                         /\ uncaught' = (uncaught \/ Escapes(cbThrows, TRUE))
               ELSE UNCHANGED <<isActiveSession, conflicts, timerOn, uncaught>>
    /\ UNCHANGED <<storage, avail, pc, idx, answer, solo, raced, threw, newest,
                   unloaded>>

\* (the check with its comparison inverted: === instead of !==)
interval_Inverted(i) ==
    /\ pc[i] = "live"
    /\ timerOn[i]
    /\ IF ~isActiveSession[i]
       THEN UNCHANGED <<isActiveSession, conflicts, timerOn, uncaught,
                        warnedCheck, lateRead>>
       ELSE IF ~avail
       THEN /\ warnedCheck' = TRUE
            /\ uncaught' = (uncaught \/ Escapes(TRUE, TRUE))
            /\ UNCHANGED <<isActiveSession, conflicts, timerOn, lateRead>>
       ELSE /\ lateRead' = (lateRead \/ conflicts[i] > 0)
            /\ warnedCheck' = warnedCheck
            /\ IF getItem(storage, storageKey(i)) = ACTIVE
               THEN /\ isActiveSession' = [isActiveSession EXCEPT ![i] = FALSE]
                    /\ conflicts' = [conflicts EXCEPT ![i] = conflicts[i] + 1]
                    /\ \E cbThrows \in BOOLEAN :
                         /\ timerOn' = [timerOn EXCEPT ![i] = cbThrows]
                         /\ uncaught' = (uncaught \/ Escapes(cbThrows, TRUE))
               ELSE UNCHANGED <<isActiveSession, conflicts, timerOn, uncaught>>
    /\ UNCHANGED <<storage, avail, pc, idx, answer, solo, raced, threw, newest,
                   unloaded>>

\* (the check clearing its interval when the storage read throws)
interval_ThrowStops(i) ==
    /\ pc[i] = "live"
    /\ timerOn[i]
    /\ IF ~isActiveSession[i]
       THEN UNCHANGED <<isActiveSession, conflicts, timerOn, uncaught,
                        warnedCheck, lateRead>>
       ELSE IF ~avail
       THEN /\ warnedCheck' = TRUE
            /\ uncaught' = (uncaught \/ Escapes(TRUE, TRUE))
            /\ timerOn' = [timerOn EXCEPT ![i] = FALSE]
            /\ UNCHANGED <<isActiveSession, conflicts, lateRead>>
       ELSE /\ lateRead' = (lateRead \/ conflicts[i] > 0)
            /\ warnedCheck' = warnedCheck
            /\ IF getItem(storage, storageKey(i)) # ACTIVE
               THEN /\ isActiveSession' = [isActiveSession EXCEPT ![i] = FALSE]
                    /\ conflicts' = [conflicts EXCEPT ![i] = conflicts[i] + 1]
                    /\ \E cbThrows \in BOOLEAN :
                         /\ timerOn' = [timerOn EXCEPT ![i] = cbThrows]
                         /\ uncaught' = (uncaught \/ Escapes(cbThrows, TRUE))
               ELSE UNCHANGED <<isActiveSession, conflicts, timerOn, uncaught>>
    /\ UNCHANGED <<storage, avail, pc, idx, answer, solo, raced, threw, newest,
                   unloaded>>

\* The interval callback (the periodic check).  It runs while the interval
\* has not been cleared.  cbThrows: onConflict throws; the exception is
\* caught by the callback's catch block, and clearInterval is skipped.
interval(i) ==
    /\ pc[i] = "live"
    /\ timerOn[i]
    /\ IF ~isActiveSession[i]
       THEN UNCHANGED <<isActiveSession, conflicts, timerOn, uncaught,
                        warnedCheck, lateRead>>
       ELSE IF ~avail
       THEN /\ warnedCheck' = TRUE
            /\ uncaught' = (uncaught \/ Escapes(TRUE, TRUE))
            /\ UNCHANGED <<isActiveSession, conflicts, timerOn, lateRead>>
       ELSE /\ lateRead' = (lateRead \/ conflicts[i] > 0)
            /\ warnedCheck' = warnedCheck
            /\ IF getItem(storage, storageKey(i)) # ACTIVE
               THEN /\ isActiveSession' = [isActiveSession EXCEPT ![i] = FALSE]
                    /\ conflicts' = [conflicts EXCEPT ![i] = conflicts[i] + 1]
                    /\ \E cbThrows \in BOOLEAN :
                         /\ timerOn' = [timerOn EXCEPT ![i] = cbThrows]
                         /\ uncaught' = (uncaught \/ Escapes(cbThrows, TRUE))
               ELSE UNCHANGED <<isActiveSession, conflicts, timerOn, uncaught>>
    /\ UNCHANGED <<storage, avail, pc, idx, answer, solo, raced, threw, newest,
                   unloaded>>

\* (a getter that asks the storage instead of the field)
isCurrentActiveSession_FromStorage(i) ==
    getItem(storage, storageKey(i)) = ACTIVE

\* isCurrentActiveSession(): the value it returns
isCurrentActiveSession(i) == isActiveSession[i]

\* A call of isCurrentActiveSession() on a constructed instance.
callIsCurrentActiveSession(i) ==
    /\ pc[i] = "live"
    /\ answer' = isCurrentActiveSession(i)
    /\ UNCHANGED <<storage, avail, pc, idx, isActiveSession, timerOn, conflicts,
                   uncaught, warnedCheck, lateRead, solo, raced, threw, newest,
                   unloaded>>

\* (a release that removes nothing)
releaseSession_NoRemove(i) ==
    /\ pc[i] = "live"
    /\ timerOn' = [timerOn EXCEPT ![i] = FALSE]
    /\ UNCHANGED <<storage, avail, pc, idx, isActiveSession, conflicts, uncaught,
                   warnedCheck, answer, lateRead, solo, raced, threw, newest,
                   unloaded>>

\* (a release that clears the whole claim namespace, whatever the flag)
releaseSession_ClearsAll(i) ==
    /\ pc[i] = "live"
    /\ timerOn' = [timerOn EXCEPT ![i] = FALSE]
    /\ storage' = IF avail
                  THEN SelectSeq(storage, LAMBDA e :
                           ~startsWith(e.key, ACTIVE_SESSION_KEY_PREFIX))
                  ELSE storage
    /\ UNCHANGED <<avail, pc, idx, isActiveSession, conflicts, uncaught,
                   warnedCheck, answer, lateRead, solo, raced, threw, newest,
                   unloaded>>

\* (a release that does not clear the interval)
releaseSession_KeepsTimer(i) ==
    /\ pc[i] = "live"
    /\ timerOn' = timerOn
    /\ storage' = IF isActiveSession[i] /\ avail
                  THEN removeItem(storage, storageKey(i))
                  ELSE storage
    /\ uncaught' = (uncaught \/ Escapes(isActiveSession[i] /\ ~avail, TRUE))
    /\ UNCHANGED <<avail, pc, idx, isActiveSession, conflicts, warnedCheck,
                   answer, lateRead, solo, raced, threw, newest, unloaded>>

\* releaseSession(): clearInterval, then removeItem(storageKey) if the flag
\* is set, inside a try whose catch ignores the exception.
releaseSession(i) ==
    /\ pc[i] = "live"
    /\ timerOn' = [timerOn EXCEPT ![i] = FALSE]
    /\ storage' = IF isActiveSession[i] /\ avail
                  THEN removeItem(storage, storageKey(i))
                  ELSE storage
    /\ uncaught' = (uncaught \/ Escapes(isActiveSession[i] /\ ~avail, TRUE))
    /\ UNCHANGED <<avail, pc, idx, isActiveSession, conflicts, warnedCheck,
                   answer, lateRead, solo, raced, threw, newest, unloaded>>

\* ------------------------------------------------------------------------
\* The App component (the host shell), one per page
\* ------------------------------------------------------------------------
\* The manager of page p is inside its constructor (which runs to its end
\* before anything else runs in the page).
Constructing(p) == \E i \in Inst : owner[i] = p /\ pc[i] = "ctor"

\* (a mount effect without the test of sessionManagerRef.current)
AppEffect_NoGuard(p) ==
    /\ ~effectOn[p]
    /\ ~Constructing(p)
    /\ \A q \in Inst : q < p => \E i \in Inst : owner[i] = q
    /\ effectOn' = [effectOn EXCEPT ![p] = TRUE]
    /\ \E i \in Inst :
          /\ constructor(i)
          /\ owner' = [owner EXCEPT ![i] = p]
    /\ UNCHANGED <<isConcurrencyError, sessionManagerRef>>

\* The mount effect of App: if sessionManagerRef.current is null, a manager
\* is constructed (its constructor is entered here and assigned to the ref
\* when it returns).  Pages are numbered in the order in which they mount.
AppEffect(p) ==
    /\ ~effectOn[p]
    /\ ~Constructing(p)
    /\ \A q \in Inst : q < p => \E i \in Inst : owner[i] = q
    /\ effectOn' = [effectOn EXCEPT ![p] = TRUE]
    /\ IF sessionManagerRef[p] = 0
       THEN \E i \in Inst :
               /\ constructor(i)
               /\ owner' = [owner EXCEPT ![i] = p]
       ELSE UNCHANGED <<classVars, owner>>
    /\ UNCHANGED <<isConcurrencyError, sessionManagerRef>>

\* The rest of `new ActiveSessionManager(...)' inside the mount effect; when
\* the constructor returns, the manager is assigned to the ref.
AppConstructs(i) ==
    /\ owner[i] # 0
    /\ claimSessionLoop(i) \/ claimSessionWrite(i)
    /\ sessionManagerRef' =
          IF pc'[i] = "live"
          THEN [sessionManagerRef EXCEPT ![owner[i]] = i]
          ELSE sessionManagerRef
    /\ UNCHANGED <<isConcurrencyError, effectOn, owner>>

\* The cleanup of the mount effect: sessionManagerRef.current?.releaseSession()
AppCleanup(p) ==
    /\ effectOn[p]
    /\ ~Constructing(p)
    /\ effectOn' = [effectOn EXCEPT ![p] = FALSE]
    /\ IF sessionManagerRef[p] # 0
       THEN releaseSession(sessionManagerRef[p])
       ELSE UNCHANGED classVars
    /\ UNCHANGED <<isConcurrencyError, sessionManagerRef, owner>>

\* The interval callback of a manager constructed by an App: its conflict
\* callback is () => setIsConcurrencyError(true), which does not throw, so
\* clearInterval follows it.
AppInterval(i) ==
    /\ owner[i] # 0
    /\ interval(i)
    /\ conflicts'[i] > conflicts[i] => ~timerOn'[i]
    /\ isConcurrencyError' =
          IF conflicts'[i] > conflicts[i]
          THEN [isConcurrencyError EXCEPT ![owner[i]] = TRUE]
          ELSE isConcurrencyError
    /\ UNCHANGED <<sessionManagerRef, effectOn, owner>>

\* The beforeunload listener of a manager constructed by an App.
AppBeforeunload(i) ==
    /\ owner[i] # 0
    /\ beforeunload(i)
    /\ UNCHANGED appVars

\* closeConcurrencyBanner: the button of the banner, rendered while
\* isConcurrencyError is true.
closeConcurrencyBanner(p) ==
    /\ isConcurrencyError[p]
    /\ isConcurrencyError' = [isConcurrencyError EXCEPT ![p] = FALSE]
    /\ UNCHANGED <<classVars, sessionManagerRef, effectOn, owner>>

\* The program: pages that render App, sharing the storage.
AppNext ==
    \/ StorageFails /\ UNCHANGED appVars
    \/ StorageRecovers /\ UNCHANGED appVars
    \/ \E p \in Inst :
        \/ AppEffect(p)
        \/ AppConstructs(p)
        \/ AppInterval(p)
        \/ AppBeforeunload(p)
        \/ AppCleanup(p)
        \/ closeConcurrencyBanner(p)

AppSpec == Init /\ [][AppNext]_vars

\* The session managers on their own: any caller constructs them and
\* calls their methods in any order, with any conflict callback; no App.
Next ==
    \/ StorageFails /\ UNCHANGED appVars
    \/ StorageRecovers /\ UNCHANGED appVars
    \/ \E i \in Inst :
        \/ constructor(i) /\ UNCHANGED appVars
        \/ claimSessionLoop(i) /\ UNCHANGED appVars
        \/ claimSessionWrite(i) /\ UNCHANGED appVars
        \/ beforeunload(i) /\ UNCHANGED appVars
        \/ interval(i) /\ UNCHANGED appVars
        \/ callIsCurrentActiveSession(i) /\ UNCHANGED appVars
        \/ releaseSession(i) /\ UNCHANGED appVars

Spec == Init /\ [][Next]_vars

\* The program with its scheduling: an installed interval keeps firing
\* (window.setInterval, every 3000 ms, until clearInterval), and a storage
\* that fails starts working again, so that a check that could evict is
\* not postponed for ever.
FairSpec ==
    /\ Spec
    /\ WF_vars(StorageRecovers /\ UNCHANGED appVars)
    /\ \A i \in Inst : SF_vars(interval(i) /\ UNCHANGED appVars)

\* The program in a browser whose storage throws on every access (storage
\* disabled, access denied): the same handlers, the storage never works.
InitDown == Init /\ ~avail

NextDown ==
    \E i \in Inst :
        \/ constructor(i) /\ UNCHANGED appVars
        \/ claimSessionLoop(i) /\ UNCHANGED appVars
        \/ claimSessionWrite(i) /\ UNCHANGED appVars
        \/ beforeunload(i) /\ UNCHANGED appVars
        \/ interval(i) /\ UNCHANGED appVars
        \/ callIsCurrentActiveSession(i) /\ UNCHANGED appVars
        \/ releaseSession(i) /\ UNCHANGED appVars

SpecDown == InitDown /\ [][NextDown]_vars

\* ------------------------------------------------------------------------
\* Vocabulary of the properties
\* ------------------------------------------------------------------------
Live(i) == pc[i] = "live"

\* No two constructions have overlapped so far.
Sequential == ~raced /\ \A i \in Inst : pc[i] = "ctor" => solo[i]

\* Instances 1 and 2 are the only ones.
OnlyTwo == \A i \in Inst : i > 2 => pc[i] = "idle"

\* Instance 1 is the only one that has been constructed.
OnlyOne == \A i \in Inst : i > 1 => pc[i] = "idle"

\* Instance i is constructed and active, its interval is installed (it has
\* been neither evicted nor released), no unload event has happened, and no
\* constructor has been entered after its own.
UndisturbedNewest(i) ==
    /\ Live(i) /\ isActiveSession[i] /\ timerOn[i]
    /\ ~unloaded
    /\ \A j \in Inst : j > i => pc[j] = "idle"

\* The constructor of instance i returns in this step.
Returns(i) == pc[i] = "ctor" /\ pc'[i] = "live"

\* Instance i is active, its interval runs, and its periodic check, run now
\* with working storage, leaves it active (it reads the sentinel and changes
\* nothing).
ChecksPass(i) ==
    /\ Live(i) /\ timerOn[i] /\ isActiveSession[i]
    /\ getItem(storage, storageKey(i)) = ACTIVE

\* Instances 1 and 2 alone, constructed one after the other on working
\* storage, the constructor of 2 returned, no unload event.
TwoInSequence ==
    /\ Live(1) /\ Live(2) /\ OnlyTwo /\ newest = 2
    /\ ~raced /\ ~threw /\ ~unloaded

\* Instance i has been released while active and its key is gone.
Released(i) ==
    /\ Live(i) /\ isActiveSession[i] /\ ~timerOn[i]
    /\ ~HasKey(storage, storageKey(i))

\* ------------------------------------------------------------------------
\* Properties
\* ------------------------------------------------------------------------

\* C1: with instances 1 and 2 alone, constructed one after the other on
\* working storage and never unloaded, after 2's constructor returned the
\* key of 1 does not hold the sentinel (no check of 1 leaves it active), and
\* a periodic check of 1 run with working storage ends with 1's conflict
\* callback called exactly once, 1 not active and 2 active.
C1_SecondEvictsFirst ==
    /\ [](TwoInSequence =>
            /\ getItem(storage, storageKey(1)) # ACTIVE
            /\ isCurrentActiveSession(2)
            /\ ~isCurrentActiveSession(1) => conflicts[1] = 1)
    /\ [][(TwoInSequence /\ interval(1) /\ avail)
          => /\ conflicts'[1] = 1
             /\ ~isActiveSession'[1]
             /\ isActiveSession'[2]]_vars

C1_Witness ==
    /\ TwoInSequence
    /\ conflicts[1] = 1
    /\ ~isCurrentActiveSession(1)
    /\ isCurrentActiveSession(2)
    /\ getItem(storage, storageKey(2)) = ACTIVE

\* C2 (as claimed): in every reachable state the storage holds at most one
\* key under the claim prefix.
C2_AtMostOneClaimKey == Cardinality(ClaimKeys(storage)) <= 1

\* C2 (amended): as long as no two constructions have overlapped, the
\* storage holds at most one key under the claim prefix.
C2_AtMostOneClaimKeySequential ==
    Sequential => Cardinality(ClaimKeys(storage)) <= 1

C2_Witness ==
    /\ Sequential
    /\ \A i \in Inst : Live(i)
    /\ ClaimKeys(storage) = {storageKey(MaxInst)}
    /\ HasKey(storage, LOCAL_STORAGE_PROJECTS)

\* C3: when a constructor returns, every construction so far having run
\* alone and without a storage exception, the keys under the claim prefix are
\* exactly the returning instance's storageKey.
C3_SequenceLeavesLastKey ==
    [][\A i \in Inst :
         (Returns(i) /\ ~raced' /\ ~threw')
         => ClaimKeys(storage') = {storageKey(i)}]_vars

C3_Witness ==
    /\ \A i \in Inst : Live(i) /\ timerOn[i] /\ isActiveSession[i]
    /\ ~raced /\ ~threw /\ ~unloaded
    /\ newest = MaxInst
    /\ ClaimKeys(storage) = {storageKey(MaxInst)}
    /\ getItem(storage, storageKey(MaxInst)) = ACTIVE

\* C4 (as claimed): a construction that runs alone and without a storage
\* exception (it returns with the storage working: an exception would have
\* ended it at once) leaves its own key as the only key under the claim
\* prefix, whatever the storage held before.
C4_SweepRemovesEveryClaim ==
    [][\A i \in Inst :
         (Returns(i) /\ solo[i] /\ avail)
         => ClaimKeys(storage') = {storageKey(i)}]_vars

\* C5: no instance's conflict callback is called more than once, and no
\* exception leaves a handler.
C5_ConflictAtMostOnce ==
    /\ \A i \in Inst : conflicts[i] <= 1
    /\ ~uncaught

\* An evicted instance whose interval still runs (its callback threw), after
\* an unload event, a storage failure and the construction of another
\* instance.
C5_Witness ==
    \E i \in Inst :
        /\ Live(i) /\ ~isActiveSession[i] /\ timerOn[i]
        /\ conflicts[i] = 1
        /\ newest # i /\ ~avail /\ threw /\ unloaded

\* C6: an instance whose flag is false keeps it false in every step.
C6_EvictedIsTerminal ==
    [][\A i \in Inst :
         (Live(i) /\ ~isCurrentActiveSession(i)) => ~isActiveSession'[i]]_vars

C6_Witness ==
    \E i \in Inst :
        /\ Live(i) /\ ~isActiveSession[i] /\ timerOn[i]
        /\ newest # i /\ Live(newest) /\ isActiveSession[newest]
        /\ HasKey(storage, storageKey(newest))
        /\ unloaded /\ avail

\* C7 (as claimed): of two constructed instances at most one is active once
\* each has run a periodic check: there are no two instances whose periodic
\* checks both leave them active.
C7_EventualExclusivity ==
    \A i, j \in Inst : i # j => ~(ChecksPass(i) /\ ChecksPass(j))

\* C8 (as claimed): once a constructor has returned, no construction having
\* met a storage exception, the periodic check of every other instance ends
\* with that instance not active: no other instance's check leaves it active.
C8_NewestAlwaysWins ==
    (newest # 0 /\ ~threw)
    => \A i \in Inst : i # newest => ~ChecksPass(i)

\* C9: releaseSession on an active instance, with working storage, leaves
\* no entry at the instance's key; on an instance already released whose key
\* is gone it changes neither the storage nor the instance; no exception
\* leaves it.
C9_ReleaseRemovesOwnKeyOnce ==
    [][\A i \in Inst :
         releaseSession(i)
         => /\ (isActiveSession[i] /\ avail) => ~HasKey(storage', storageKey(i))
            /\ Released(i) => UNCHANGED <<storage, isActiveSession, timerOn,
                                          conflicts, pc>>
            /\ ~uncaught']_vars

C9_Witness ==
    \E i, j \in Inst :
        /\ i # j
        /\ Released(i)
        /\ conflicts[i] = 0
        /\ HasKey(storage, storageKey(j))

\* C10: releaseSession on an evicted instance leaves the storage as it was,
\* and no exception leaves it.
C10_ReleaseAfterEvictionKeepsStorage ==
    [][\A i \in Inst :
         (releaseSession(i) /\ ~isActiveSession[i])
         => storage' = storage /\ ~uncaught']_vars

C10_Witness ==
    \E i, j \in Inst :
        /\ i # j
        /\ Live(i) /\ ~isActiveSession[i] /\ ~timerOn[i] /\ conflicts[i] = 1
        /\ Live(j) /\ isActiveSession[j]
        /\ getItem(storage, storageKey(j)) = ACTIVE

\* C11: while every storage access throws, every instance that has been
\* constructed, or is being constructed, is active, its conflict callback
\* has not been called, isCurrentActiveSession() returns TRUE for it, and no
\* exception has left a handler (construction and the periodic checks
\* included).
C11_StorageDownKeepsActive ==
    /\ ~uncaught
    /\ \A i \in Inst :
          pc[i] # "idle" => isCurrentActiveSession(i) /\ conflicts[i] = 0

C11_Witness ==
    /\ ~avail
    /\ threw
    /\ warnedCheck
    /\ answer
    /\ \A i \in Inst : Live(i) /\ timerOn[i]

\* C12: an instance whose construction threw (in the sweep or at the claim
\* write) stays active and its conflict callback is never called, also once
\* the storage works again.  Stated for instance 1 while no other instance
\* has been constructed.
C12_FailedConstructionStaysActive ==
    (OnlyOne /\ threw /\ Live(1))
    => isActiveSession[1] /\ conflicts[1] = 0

\* C13: no exception leaves the constructor, the periodic check, the
\* pre-unload hook, releaseSession or isCurrentActiveSession, whichever
\* storage access throws and whenever (a throwing conflict callback
\* included).
C13_NoExceptionEscapes == uncaught = FALSE

\* A construction threw, a check's read threw, a conflict callback threw
\* (its instance is evicted and its interval still runs), an unload event
\* and a release have happened, and the storage is failing.
C13_Witness ==
    /\ threw /\ warnedCheck /\ unloaded /\ ~avail
    /\ \E i, j \in Inst :
          /\ Live(i) /\ ~isActiveSession[i] /\ conflicts[i] = 1 /\ timerOn[i]
          /\ Live(j) /\ isActiveSession[j] /\ ~timerOn[j]

\* C14: a call of isCurrentActiveSession() returns the instance's
\* in-memory flag, whatever the storage holds and whether or not the
\* storage works, and leaves the flag, the timer, the storage and the
\* callback count as they were.
C14_GetterReturnsFlagOnly ==
    [][\A i \in Inst :
         callIsCurrentActiveSession(i)
         => /\ answer' = isActiveSession[i]
            /\ UNCHANGED <<storage, isActiveSession, timerOn, conflicts,
                           uncaught>>]_vars

\* The only instance has returned TRUE although its key is not in the
\* storage (it has been released).
C14_Witness ==
    /\ OnlyOne /\ Live(1) /\ answer
    /\ isActiveSession[1] /\ ~timerOn[1]
    /\ ~HasKey(storage, storageKey(1))

\* C15: the active flag of an instance is cleared only by a periodic check
\* of that instance that reads something other than the sentinel at its
\* key, and no instance is evicted, nor its conflict callback called,
\* unless another instance has been constructed.
C15_EvictionNeedsNewerInstance ==
    /\ [][\A i \in Inst :
            (isActiveSession[i] /\ ~isActiveSession'[i])
            => /\ interval(i)
               /\ avail
               /\ getItem(storage, storageKey(i)) # ACTIVE]_vars
    /\ [](\A i \in Inst :
            (Live(i) /\ (~isActiveSession[i] \/ conflicts[i] > 0))
            => \E j \in Inst : j # i /\ pc[j] # "idle")

\* C16: a periodic check that reads something other than the sentinel at
\* its key clears the active flag and calls the conflict callback, which
\* has then been called exactly once; no interval callback reads the
\* storage after its instance's eviction, and a timer tick on an evicted
\* instance changes nothing, also when the conflict callback threw (the
\* interval is then still installed).
C16_EvictionStopsPolling ==
    /\ [][\A i \in Inst :
            (/\ interval(i)
             /\ isActiveSession[i]
             /\ avail
             /\ getItem(storage, storageKey(i)) # ACTIVE)
            => /\ ~isActiveSession'[i]
               /\ conflicts'[i] = 1
               /\ storage' = storage]_vars
    /\ [](lateRead = FALSE)
    /\ [][\A i \in Inst :
            (interval(i) /\ ~isActiveSession[i])
            => UNCHANGED <<storage, isActiveSession, conflicts, timerOn,
                           warnedCheck>>]_vars

\* An evicted instance whose conflict callback threw: the callback was
\* called once and the interval has not been cleared.
C16_Witness ==
    \E i \in Inst :
        /\ Live(i) /\ ~isActiveSession[i]
        /\ conflicts[i] = 1 /\ timerOn[i]
        /\ avail

\* C17: a periodic check whose storage read throws leaves the active flag,
\* the callback count, the interval and the storage as they were; a later
\* check of the same instance that runs with working storage and reads
\* something other than the sentinel evicts the instance and calls its
\* conflict callback.
C17_FailedCheckIsSkipped ==
    /\ [][\A i \in Inst :
            (interval(i) /\ isActiveSession[i] /\ ~avail)
            => UNCHANGED <<isActiveSession, conflicts, timerOn, storage>>]_vars
    /\ [][\A i \in Inst :
            (/\ interval(i)
             /\ warnedCheck
             /\ isActiveSession[i]
             /\ avail
             /\ getItem(storage, storageKey(i)) # ACTIVE)
            => /\ ~isActiveSession'[i]
               /\ conflicts'[i] = conflicts[i] + 1]_vars

\* Instances 1 and 2 constructed one after the other on working storage; a
\* check's read has thrown; the storage works again and 1 has been evicted
\* by its check.
C17_Witness ==
    /\ warnedCheck /\ avail
    /\ OnlyTwo /\ ~raced /\ ~threw /\ ~unloaded
    /\ Live(1) /\ ~isActiveSession[1] /\ conflicts[1] = 1
    /\ Live(2) /\ isActiveSession[2] /\ timerOn[2]

\* C18: a periodic check of an instance whose own key holds the sentinel,
\* run with working storage, leaves the instance active, does not call the
\* conflict callback, and leaves the storage (and the interval) as it was.
C18_PassingCheckChangesNothing ==
    [][\A i \in Inst :
         (/\ interval(i)
          /\ isActiveSession[i]
          /\ avail
          /\ getItem(storage, storageKey(i)) = ACTIVE)
         => UNCHANGED <<isActiveSession, conflicts, storage, timerOn,
                        uncaught>>]_vars

\* An instance that is not the newest one and whose check passes: its key
\* is still in the storage although a newer instance has been constructed.
C18_Witness ==
    \E i \in Inst :
        /\ ChecksPass(i) /\ avail /\ conflicts[i] = 0
        /\ newest # i /\ newest # 0

\* C19: with the timer firing and storage reads succeeding again and
\* again, an active instance with its interval installed whose claim key is
\* no longer in the storage is eventually evicted, its conflict callback
\* having been called, unless it is released first.
C19_SweptInstanceEventuallyEvicted ==
    \A i \in Inst :
        (/\ Live(i) /\ isActiveSession[i] /\ timerOn[i]
         /\ ~HasKey(storage, storageKey(i)))
        ~> \/ ~isActiveSession[i] /\ conflicts[i] = 1
           \/ isActiveSession[i] /\ ~timerOn[i]

\* Instance 1 has been evicted after instance 2 was constructed, in
\* sequence, on working storage.
C19_Witness ==
    /\ OnlyTwo /\ ~raced /\ ~threw /\ ~unloaded /\ ~warnedCheck
    /\ Live(1) /\ ~isActiveSession[1] /\ conflicts[1] = 1 /\ ~timerOn[1]
    /\ Live(2) /\ ChecksPass(2)

\* C20: with working storage, the pre-unload hook of an active instance
\* leaves no entry at the instance's own key, the hook of an evicted
\* instance leaves the storage as it was, and in both cases every entry
\* under another key (another instance's claim included) is still there;
\* the hook changes neither the flag nor the interval.
C20_UnloadRemovesOnlyOwnKey ==
    [][\A i \in Inst :
         (beforeunload(i) /\ avail)
         => /\ isActiveSession[i] => ~HasKey(storage', storageKey(i))
            /\ ~isActiveSession[i] => storage' = storage
            /\ \A n \in 1..Len(storage) :
                  storage[n].key # storageKey(i)
                  => \E m \in 1..Len(storage') : storage'[m] = storage[n]
            /\ Len(storage') <= Len(storage)
            /\ UNCHANGED <<isActiveSession, timerOn, conflicts>>]_vars

\* The pre-unload hook of an active instance has removed its key and left
\* the claim key of another instance in the storage.
C20_Witness ==
    \E i, j \in Inst :
        /\ i # j /\ unloaded /\ ~threw /\ avail
        /\ Live(i) /\ isActiveSession[i] /\ timerOn[i]
        /\ ~HasKey(storage, storageKey(i))
        /\ ChecksPass(j) /\ newest = i

C22_ClaimKeysSentinelOwnWrites ==
    /\ [](\A n \in 1..Len(storage) :
            startsWith(storage[n].key, ACTIVE_SESSION_KEY_PREFIX)
            => storage[n].value = ACTIVE)
    /\ [][\A n \in 1..Len(storage') :
            (/\ startsWith(storage'[n].key, ACTIVE_SESSION_KEY_PREFIX)
             /\ getItem(storage, storage'[n].key) # storage'[n].value)
            => \E i \in Inst :
                  /\ Returns(i)
                  /\ avail
                  /\ storage'[n].key = storageKey(i)]_vars

\* Two live instances each with its own claim key in the storage (their
\* constructions overlapped).
C22_Witness ==
    \E i, j \in Inst :
        /\ i < j /\ Live(i) /\ Live(j)
        /\ getItem(storage, storageKey(i)) = ACTIVE
        /\ getItem(storage, storageKey(j)) = ACTIVE
        /\ HasKey(storage, LOCAL_STORAGE_PROJECTS)

\* C23: a periodic check, a releaseSession and a pre-unload hook of an
\* instance leave every entry of the storage under a key other than the
\* instance's own storageKey as it was, and the claim key of an instance
\* leaves the storage only in a sweep step of another instance's
\* constructor or in that instance's own releaseSession or pre-unload hook.
C23_OnlySweepRemovesOthersKeys ==
    /\ [][\A i \in Inst :
            (interval(i) \/ releaseSession(i) \/ beforeunload(i))
            => \/ storage' = storage
               \/ storage' = removeItem(storage, storageKey(i))]_vars
    /\ [][\A j \in Inst :
            (HasKey(storage, storageKey(j)) /\ ~HasKey(storage', storageKey(j)))
            => \/ \E i \in Inst : i # j /\ claimSessionLoop(i)
               \/ releaseSession(j)
               \/ beforeunload(j)]_vars

\* An evicted instance has been released and an unload event has happened,
\* and the claim key of another instance and the application data are
\* still in the storage.
C23_Witness ==
    \E i, j \in Inst :
        /\ i # j /\ unloaded
        /\ Live(i) /\ ~isActiveSession[i] /\ ~timerOn[i]
        /\ ChecksPass(j)
        /\ HasKey(storage, LOCAL_STORAGE_PROJECTS)

\* C24: no step of a constructor (entry, a sweep iteration, the claim
\* write, or the catch block when the storage throws part-way) changes the
\* presence or the value of a key that does not start with the claim
\* prefix.
C24_SweepKeepsOtherKeys ==
    [][\A i \in Inst :
         (constructor(i) \/ claimSessionLoop(i) \/ claimSessionWrite(i))
         => \A k \in OtherKeys :
               /\ HasKey(storage', k) = HasKey(storage, k)
               /\ getItem(storage', k) = getItem(storage, k)]_vars

\* Instance 2 was constructed after instance 1, its sweep removed the key
\* of 1 and then its construction threw; the application data is there.
C24_Witness ==
    /\ OnlyTwo /\ threw /\ ~raced /\ ~unloaded
    /\ Live(1) /\ isActiveSession[1] /\ timerOn[1]
    /\ Live(2)
    /\ ClaimKeys(storage) = {}
    /\ \A k \in OtherKeys : HasKey(storage, k)

\* C25: releaseSession leaves the interval of its instance cleared and
\* changes neither the flag nor the callback count; from then on, whatever
\* happens to the storage and to the other instances, the flag of the
\* instance does not change, its conflict callback is not called and its
\* interval is not installed again.
C25_ReleasedStaysQuiet ==
    /\ [][\A i \in Inst :
            releaseSession(i)
            => /\ ~timerOn'[i]
               /\ isActiveSession'[i] = isActiveSession[i]
               /\ conflicts'[i] = conflicts[i]]_vars
    /\ [][\A i \in Inst :
            (Live(i) /\ ~timerOn[i])
            => /\ ~timerOn'[i]
               /\ isActiveSession'[i] = isActiveSession[i]
               /\ conflicts'[i] = conflicts[i]]_vars

\* An instance released while active, whose key is gone, with a newer
\* instance constructed and a storage fault since.
C25_Witness ==
    \E i \in Inst :
        /\ Released(i) /\ conflicts[i] = 0
        /\ newest > i /\ ChecksPass(newest)
        /\ warnedCheck /\ unloaded

\* C26: an instance that has been released without having been evicted
\* (its interval is cleared, its conflict callback was never called) and
\* whose claim key is not in the storage returns FALSE from
\* isCurrentActiveSession().  Stated for the case in which it is
\* releaseSession that removed the key: a single instance, no construction
\* that threw, no unload event.
C26_ReleasedReportsInactive ==
    \A i \in Inst :
        (/\ Live(i) /\ ~timerOn[i] /\ conflicts[i] = 0
         /\ ~threw /\ ~unloaded /\ OnlyOne
         /\ ~HasKey(storage, storageKey(i)))
        => ~isCurrentActiveSession(i)

\* C27: when no instance other than instance 1 has been constructed and
\* its construction did not throw, instance 1 stays active and its conflict
\* callback is not called, also after its pre-unload hook has run and
\* further timer ticks have followed.
C27_UnloadThenTicksKeepsActive ==
    (OnlyOne /\ Live(1) /\ ~threw /\ unloaded)
    => isActiveSession[1] /\ conflicts[1] = 0

\* C28: in every page whose App has constructed its manager, the state
\* isConcurrencyError is true exactly when the manager is evicted: false
\* while the manager is active, true from the call of the conflict callback
\* on, whatever the user does.
C28_BannerIffEvicted ==
    \A p \in Inst :
        sessionManagerRef[p] # 0
        => (isConcurrencyError[p] <=> ~isActiveSession[sessionManagerRef[p]])

\* C29: no page's App constructs two managers; once a manager is in
\* sessionManagerRef it stays there, also when the mount effect runs again
\* after its cleanup; and the cleanup calls releaseSession on it (its
\* interval is cleared and, if it is active and the storage works, its key
\* is removed).
C29_OneManagerPerApp ==
    /\ [](\A i, j \in Inst :
            (i # j /\ owner[i] # 0) => owner[i] # owner[j])
    /\ [][\A p \in Inst :
            sessionManagerRef[p] # 0
            => sessionManagerRef'[p] = sessionManagerRef[p]]_vars
    /\ [][\A p \in Inst :
            (AppCleanup(p) /\ sessionManagerRef[p] # 0)
            => /\ ~timerOn'[sessionManagerRef[p]]
               /\ (isActiveSession[sessionManagerRef[p]] /\ avail)
                  => ~HasKey(storage', storageKey(sessionManagerRef[p]))]_vars

\* The mount effect of page 1 is in place again after its cleanup released
\* the manager: the ref still holds manager 1, no other manager exists.
C29_Witness ==
    /\ effectOn[1] /\ sessionManagerRef[1] = 1
    /\ Released(1) /\ conflicts[1] = 0 /\ ~threw /\ ~unloaded
    /\ OnlyOne

====
